---- MODULE Spec2Model ----
(***************************************************************************)
(* A model of rent.py: the rent reminder (RentReminder) that resolves the  *)
(* rent schedule for the due date, splits the utilities of today's month   *)
(* among the payers, composes one statement per person and hands it to the *)
(* mail transport.                                                         *)
(*                                                                         *)
(* Dates are triples <<year, month, day>>.  Money in the configuration is  *)
(* written as a decimal literal with two places and is held here as its    *)
(* number of cents; the program turns it into a Python float (an IEEE-754  *)
(* double), so the arithmetic of the program is modelled on doubles: a     *)
(* double is a record [m, e] of value m * 2^e whose mantissa m is a        *)
(* natural of at most 53 bits.                                             *)
(***************************************************************************)
EXTENDS Integers, Sequences, FiniteSets, TLC

\* The element of a one-element set.  The({e : x \in {v}}) is e with x bound
\* to the value of v, which is computed once however often e uses x.
The(S) == CHOOSE x \in S : TRUE

(***************************************************************************)
(* Naturals of any size (TLC's integers are 32 bits wide): a sequence of   *)
(* limbs in base 2^LimbBits, least significant first.                      *)
(***************************************************************************)
LimbBits == 13

Base == 2 ^ LimbBits

RECURSIVE NatToLimbs(_)
NatToLimbs(n) == IF n = 0 THEN <<>> ELSE <<n % Base>> \o NatToLimbs(n \div Base)

RECURSIVE LimbsToNat(_)
LimbsToNat(b) == IF b = <<>> THEN 0 ELSE Head(b) + Base * LimbsToNat(Tail(b))

\* b without its leading (most significant) zero limbs.
Trim(b) ==
    The({SubSeq(v, 1, The({i \in 0..Len(v) :
                              /\ i > 0 => v[i] # 0
                              /\ \A j \in (i + 1)..Len(v) : v[j] = 0})) :
         v \in {b}})

Zeros(s) == [i \in 1..s |-> 0]

RECURSIVE AddLimbs(_, _, _)
AddLimbs(a, b, c) ==
    IF a = <<>> /\ b = <<>> THEN (IF c = 0 THEN <<>> ELSE <<c>>)
    ELSE The({<<s % Base>> \o AddLimbs(IF a = <<>> THEN a ELSE Tail(a),
                                       IF b = <<>> THEN b ELSE Tail(b),
                                       s \div Base) :
              s \in {(IF a = <<>> THEN 0 ELSE Head(a))
                     + (IF b = <<>> THEN 0 ELSE Head(b)) + c}})

\* a * k + c for small k and c.
RECURSIVE MulSmall(_, _, _)
MulSmall(a, k, c) ==
    IF a = <<>> THEN NatToLimbs(c)
    ELSE The({<<s % Base>> \o MulSmall(Tail(a), k, s \div Base) :
              s \in {Head(a) * k + c}})

\* Long division of the limbs a[1..i] by the small n, from the top limb down,
\* r the remainder carried in: the quotient's limbs and the remainder.
RECURSIVE DivSmall(_, _, _, _)
DivSmall(a, i, n, r) ==
    IF i = 0 THEN [q |-> <<>>, r |-> r]
    ELSE The({The({[q |-> Append(rest.q, cur \div n), r |-> rest.r] :
                   rest \in {DivSmall(a, i - 1, n, cur % n)}}) :
              cur \in {Base * r + a[i]}})

ShiftLeft(a, s) ==
    IF a = <<>> THEN <<>>
    ELSE Trim(Zeros(s \div LimbBits) \o MulSmall(a, 2 ^ (s % LimbBits), 0))

\* a shifted right by s bits, and whether a one was shifted out.
ShiftRight(a, s) ==
    The({The({[q    |-> Trim(d.q),
               lost |-> d.r # 0 \/ \E i \in 1..k : a[i] # 0] :
              d \in {DivSmall(SubSeq(a, k + 1, Len(a)), Len(a) - k,
                              2 ^ (s % LimbBits), 0)}}) :
         k \in {IF s \div LimbBits < Len(a) THEN s \div LimbBits ELSE Len(a)}})

\* The number of significant bits of a (a without leading zero limbs).
BitLen(a) ==
    IF a = <<>> THEN 0
    ELSE (Len(a) - 1) * LimbBits
         + (CHOOSE j \in 1..LimbBits :
                2 ^ (j - 1) <= a[Len(a)] /\ a[Len(a)] < 2 ^ j)

IsOdd(a) == a # <<>> /\ a[1] % 2 = 1

(***************************************************************************)
(* IEEE-754 doubles, non-negative, in the normal range: every operation    *)
(* is the exact result rounded to 53 significant bits, ties to even.       *)
(***************************************************************************)
MantissaBits == 53

\* More quotient bits than a mantissa holds, for a divisor below 2^7.
GuardBits == 64

\* t, of more than 53 bits, cut to 53: low is t without the bits below the
\* last one cut off, hi is t without the bits cut off.
RoundCut(low, hi, e, sticky) ==
    [m |-> IF IsOdd(low.q) /\ (sticky \/ low.lost \/ IsOdd(hi))
           THEN AddLimbs(hi, <<1>>, 0) ELSE hi,
     e |-> e]

\* The exact value (b * 2^e, plus a little when sticky) rounded to a double.
Round53(b, e, sticky) ==
    The({IF BitLen(t) <= MantissaBits THEN [m |-> t, e |-> e]
         ELSE The({The({RoundCut(low, hi, e + BitLen(t) - MantissaBits, sticky) :
                        hi \in {ShiftRight(low.q, 1).q}}) :
                   low \in {ShiftRight(t, BitLen(t) - MantissaBits - 1)}}) :
         t \in {Trim(b)}})

FloatOfInt(k) == [m |-> NatToLimbs(k), e |-> 0]

FAdd(x0, y0) ==
    The({The({Round53(AddLimbs(ShiftLeft(x.m, x.e - e),
                               ShiftLeft(y.m, y.e - e), 0), e, FALSE) :
              e \in {IF x.e < y.e THEN x.e ELSE y.e}}) :
         x \in {x0}, y \in {y0}})

\* x / n for a small positive integer n.
FDiv(x0, n) ==
    The({The({The({Round53(d.q, x.e - GuardBits, d.r # 0) :
                   d \in {DivSmall(num, Len(num), n, 0)}}) :
              num \in {ShiftLeft(x.m, GuardBits)}}) :
         x \in {x0}})

\* The double a two-place decimal literal of the configuration parses to:
\* the double nearest to cents / 100.
FloatOfCents(c) == FDiv(FloatOfInt(c), 100)

\* round(x, 2) in cents: the nearest multiple of 0.01 to the exact value of
\* the double, halves away from zero.
Round2(x0) ==
    The({IF x.e >= 0 THEN LimbsToNat(ShiftLeft(MulSmall(x.m, 100, 0), x.e))
         ELSE LimbsToNat(ShiftRight(AddLimbs(MulSmall(x.m, 200, 0),
                                             ShiftLeft(<<1>>, 0 - x.e), 0),
                                    1 - x.e).q) :
         x \in {x0}})

(***************************************************************************)
(* '{:.2f}'.format(x) in cents: the nearest multiple of 0.01 to the exact  *)
(* value of the double, halves to even.                                    *)
(***************************************************************************)
HalfEven(q, exact) ==
    IF q % 2 = 1 /\ exact
    THEN (IF ((q - 1) \div 2) % 2 = 0 THEN (q - 1) \div 2 ELSE (q + 1) \div 2)
    ELSE (q + 1) \div 2

Format2f(x0) ==
    The({IF x.e >= 0 THEN LimbsToNat(ShiftLeft(MulSmall(x.m, 100, 0), x.e))
         ELSE The({HalfEven(LimbsToNat(twice.q), ~twice.lost) :
                   twice \in {ShiftRight(MulSmall(x.m, 200, 0), 0 - x.e)}}) :
         x \in {x0}})

(***************************************************************************)
(* The state of a RentReminder and of a run of send_all_email.             *)
(***************************************************************************)
VARIABLES
    config,     \* self.config: the loaded YAML document
    today,      \* self.today
    due_date,   \* self.due_date (<<>> before __init__ has set it)
    dry_run,    \* self.dry_run
    memo,       \* self._due_date_rents: <<>> while the attribute is not set
    calls,      \* how many times rents_as_of has been entered
    out,        \* what has been printed, in order
    order,      \* config['people'].keys(): the order of the iteration
    idx,        \* the position of send_all_email in order
    pc,         \* "new", "run", "done", or "failed" (an exception escaped)
    error,      \* the exception that escaped, <<>> while none
    handed,     \* the calls of send_email: <<from, recipients, message>>
    sent,       \* the calls of SMTP.sendmail
    ret         \* the result of the last method called from outside

vars == <<config, today, due_date, dry_run, memo, calls, out, order, idx, pc,
          error, handed, sent, ret>>

Ok(v) == [ok |-> TRUE, val |-> v]

Err(exc, msg) == [ok |-> FALSE, exc |-> exc, msg |-> msg]

\* date >= date, on <<year, month, day>>.
DateGE(a, b) ==
    \/ a[1] > b[1]
    \/ a[1] = b[1] /\ a[2] > b[2]
    \/ a[1] = b[1] /\ a[2] = b[2] /\ a[3] >= b[3]

\* first_next_month that wraps the month and keeps the year.
first_next_month_same_year(start) ==
    <<start[1], (start[2] % 12) + 1, 1>>

first_next_month(start) ==
    IF start[2] = 12 THEN <<start[1] + 1, 1, 1>>
    ELSE <<start[1], start[2] + 1, 1>>

Digit == <<"0", "1", "2", "3", "4", "5", "6", "7", "8", "9">>

\* n in decimal, zero-padded to width characters.
RECURSIVE Decimal(_, _)
Decimal(n, width) ==
    IF width = 0 THEN <<>>
    ELSE Append(Decimal(n \div 10, width - 1), Digit[(n % 10) + 1])

\* date.strftime('%Y-%m')
strftime_Ym(d) == Decimal(d[1], 4) \o <<"-">> \o Decimal(d[2], 2)

MonthName == <<"January", "February", "March", "April", "May", "June", "July",
               "August", "September", "October", "November", "December">>

\* date.strftime('%B')
due_month_name == MonthName[due_date[2]]

all_rents == config.rent

num_payers == Cardinality(DOMAIN config.people) + 1

\* The loop of rents_as_of over reversed(all_rents), from entry i down: the
\* index of the entry it returns from, 0 when it falls out of the loop.
RECURSIVE rents_loop(_, _)
rents_loop(i, rent_date) ==
    IF i = 0 THEN 0
    ELSE IF DateGE(rent_date, all_rents[i].since) THEN i
    ELSE rents_loop(i - 1, rent_date)

\* The same loop without reversed(): from entry i up.
RECURSIVE rents_loop_forward(_, _)
rents_loop_forward(i, rent_date) ==
    IF i > Len(all_rents) THEN 0
    ELSE IF DateGE(rent_date, all_rents[i].since) THEN i
    ELSE rents_loop_forward(i + 1, rent_date)

\* A method that changes self or prints takes st = [memo, calls, out] and
\* returns [st, res]: the state it leaves and what it returns or raises.
\* What rents_as_of does once its loop has stopped at entry i (0: at none).
rents_found(st, rent_date, i) ==
    IF i = 0
    THEN [st  |-> [st EXCEPT !.calls = @ + 1],
          res |-> Err("KeyError", <<"Cannot find rent for", rent_date>>)]
    ELSE [st  |-> [st EXCEPT !.calls = @ + 1,
                             !.out = Append(@, <<"Using rent as of",
                                                 all_rents[i].since>>)],
          res |-> Ok(all_rents[i].splits)]

\* rents_as_of that walks the schedule oldest first.
rents_as_of_unreversed(st, rent_date) ==
    The({rents_found(st, rent_date, i) :
         i \in {rents_loop_forward(1, rent_date)}})

\* rents_as_of that falls back to the oldest entry instead of raising.
rents_as_of_fallback(st, rent_date) ==
    The({rents_found(st, rent_date,
                     IF i = 0 /\ Len(all_rents) > 0 THEN 1 ELSE i) :
         i \in {rents_loop(Len(all_rents), rent_date)}})

rents_as_of(st, rent_date) ==
    The({rents_found(st, rent_date, i) :
         i \in {rents_loop(Len(all_rents), rent_date)}})

\* due_date_rents that looks the schedule up on every call.
due_date_rents_unmemoized(st) ==
    The({IF r.res.ok
         THEN [st |-> [r.st EXCEPT !.memo = <<r.res.val>>], res |-> r.res]
         ELSE r :
         r \in {rents_as_of(st, due_date)}})

due_date_rents(st) ==
    IF st.memo # <<>> THEN [st |-> st, res |-> Ok(st.memo[1])]
    ELSE The({IF r.res.ok
              THEN [st |-> [r.st EXCEPT !.memo = <<r.res.val>>], res |-> r.res]
              ELSE r :
              r \in {rents_as_of(st, due_date)}})

rent_for(st, name) ==
    The({IF ~r.res.ok THEN r
         ELSE IF name \in DOMAIN r.res.val
         THEN [st |-> r.st, res |-> Ok(r.res.val[name])]
         ELSE [st |-> r.st, res |-> Err("KeyError", <<name>>)] :
         r \in {due_date_rents(st)}})

\* The utilities looked up under a date.
utilities_of(d) ==
    IF /\ d[1] \in DOMAIN config.utilities
       /\ d[2] \in DOMAIN config.utilities[d[1]]
    THEN Ok(config.utilities[d[1]][d[2]])
    ELSE Err("NoUtilityInfo", <<"No utility info for ">> \o strftime_Ym(d))

\* utility_info that bills the month of the due date.
utility_info_of_due_date == utilities_of(due_date)

utility_info == utilities_of(today)

\* RentComponent.__init__: total is a double.
RentComponent(name, total, divided_among) ==
    IF divided_among > 1
    THEN Ok([name |-> name, total |-> total, divided_among |-> divided_among,
             share |-> FDiv(total, divided_among)])
    ELSE IF divided_among = 1
    THEN Ok([name |-> name, total |-> total, divided_among |-> divided_among,
             share |-> total])
    ELSE Err("ValueError", <<"Unexpected divided_among", divided_among>>)

\* RentComponent.__str__, the numbers in cents as '{:.2f}' prints them.
RentComponent_str(p) ==
    IF p.divided_among = 1 THEN <<p.name, Format2f(p.total)>>
    ELSE <<p.name, Format2f(p.share), Format2f(p.total), p.divided_among>>

\* The order of Python's string comparison on the category names in use.
CategoryOrder == <<"Electric", "Gas", "Water">>

Rank(k) == CHOOSE i \in 1..Len(CategoryOrder) : CategoryOrder[i] = k

\* The keys of a mapping in an order that is not the sorted one.
RECURSIVE unsorted(_)
unsorted(keys) ==
    IF keys = {} THEN <<>>
    ELSE The({<<k>> \o unsorted(keys \ {k}) :
              k \in {CHOOSE k \in keys : \A j \in keys : Rank(k) >= Rank(j)}})

\* sorted(d.iteritems()): the keys of a mapping, ascending.
RECURSIVE sorted(_)
sorted(keys) ==
    IF keys = {} THEN <<>>
    ELSE The({<<k>> \o sorted(keys \ {k}) :
              k \in {CHOOSE k \in keys : \A j \in keys : Rank(k) <= Rank(j)}})

\* The loop of parts_for over the sorted utility items: one RentComponent
\* (or the error of its construction) for each.
RECURSIVE utility_parts(_, _, _)
utility_parts(ks, bills, n) ==
    IF ks = <<>> THEN <<>>
    ELSE <<RentComponent(Head(ks), FloatOfCents(bills[Head(ks)]), n)>>
         \o utility_parts(Tail(ks), bills, n)

RECURSIVE values(_)
values(results) ==
    IF results = <<>> THEN <<>>
    ELSE <<Head(results).val>> \o values(Tail(results))

\* parts_for with the utilities in the order the mapping yields them.
parts_of_unsorted(rent, bills) ==
    Ok(values(<<RentComponent("Rent", FloatOfCents(rent), 1)>>
              \o utility_parts(unsorted(DOMAIN bills), bills, num_payers)))

\* parts_for once the rent and the utilities are there.
parts_of(rent, bills) ==
    The({IF \E i \in 1..Len(made) : ~made[i].ok
         THEN made[CHOOSE i \in 1..Len(made) : ~made[i].ok]
         ELSE Ok(values(made)) :
         made \in {<<RentComponent("Rent", FloatOfCents(rent), 1)>>
                   \o utility_parts(sorted(DOMAIN bills), bills, num_payers)}})

parts_for(st, name) ==
    The({IF ~r.res.ok THEN r
         ELSE IF ~u.ok THEN [st |-> r.st, res |-> u]
         ELSE [st |-> r.st, res |-> parts_of(r.res.val, u.val)] :
         r \in {rent_for(st, name)}, u \in {utility_info}})

\* sum(p.share for p in parts), from acc on.
RECURSIVE sum_shares(_, _)
sum_shares(acc, parts) ==
    IF parts = <<>> THEN acc
    ELSE sum_shares(FAdd(acc, Head(parts).share), Tail(parts))

total_for(st, name) ==
    The({IF ~p.res.ok THEN p
         ELSE [st |-> p.st, res |-> Ok(sum_shares(FloatOfInt(0), p.res.val))] :
         p \in {parts_for(st, name)}})

\* dict.get(key) is truthy.
Get(d, key) == key \in DOMAIN d /\ d[key] = TRUE

payment_links_for(name, total) ==
    (IF Get(config.people[name], "paypal_me")
     THEN <<<<"https://www.paypal.me/", config.payment_links.paypal, total>>>>
     ELSE <<>>)
    \o
    (IF Get(config.people[name], "square_me")
     THEN <<<<"https://cash.me/", config.payment_links.square, total>>>>
     ELSE <<>>)

\* The headers email_for builds before the parts.
Headers(name) ==
    <<<<"From", config.email.from>>, <<"To", config.people[name].email>>>>
    \o (IF config.people[name].cc # ""
        THEN <<<<"Cc", config.people[name].cc>>>> ELSE <<>>)

Recipients(name) ==
    <<config.people[name].email>>
    \o (IF config.people[name].cc # ""
        THEN <<config.people[name].cc>> ELSE <<>>)
    \o <<config.email.bcc>>

RECURSIVE parts_block(_)
parts_block(parts) ==
    IF parts = <<>> THEN <<>>
    ELSE <<RentComponent_str(Head(parts))>> \o parts_block(Tail(parts))

\* email_for from the subject on: the envelope.
envelope(name, parts, total) ==
    [from       |-> config.email.from,
     recipients |-> Recipients(name),
     message    |->
        [headers |-> Append(Headers(name),
                            <<"Subject",
                              <<due_month_name, " rent is $", total>>>>),
         parts   |-> parts_block(parts),
         total   |-> total,
         links   |-> payment_links_for(name, total)]]

\* email_for from the double check on.
email_checked(name, parts, total, again) ==
    IF ~again.res.ok THEN again
    ELSE IF total # Round2(again.res.val)
    THEN [st |-> again.st, res |-> Err("AssertionError", <<>>)]
    ELSE [st |-> again.st, res |-> Ok(envelope(name, parts, total))]

\* email_for once parts_for has returned p.
email_of_parts(name, p) ==
    IF ~p.res.ok THEN p
    ELSE The({email_checked(name, p.res.val, total, again) :
              total \in {Round2(sum_shares(FloatOfInt(0), p.res.val))},
              again \in {total_for(p.st, name)}})

email_for(st, name) ==
    IF name \notin DOMAIN config.people
    THEN [st |-> st, res |-> Err("KeyError", <<name>>)]
    ELSE IF "cc" \notin DOMAIN config.people[name]
    THEN [st |-> st, res |-> Err("KeyError", <<"cc">>)]
    ELSE The({email_of_parts(name, p) : p \in {parts_for(st, name)}})

(***************************************************************************)
(* send_all_email: one step is one turn of its loop, send_email_for(name)  *)
(* for the next name of the iteration, with send_email inside it.          *)
(***************************************************************************)
Self == [memo |-> memo, calls |-> calls, out |-> out]

\* send_email_for up to the call of send_email: what email_for gives after
\* the two lines printed first.
Generated(name) ==
    The({email_for(st, name) :
         st \in {[Self EXCEPT !.out = @ \o <<<<"===">>,
                                            <<"Generating email for", name>>>>]}})

\* The three lines send_email_for prints of the envelope.
Printed(data) ==
    <<<<"from:", data.from>>, <<"recipients:", data.recipients>>,
      <<"message:", data.message>>>>

Envelope(data) == <<data.from, data.recipients, data.message>>

\* send_email that sends whatever dry_run says.
send_email_always(st, from_address, recipients, data, transport) ==
    IF transport = "connect"
    THEN [st |-> st, exc |-> <<[exc |-> "SMTPException", msg |-> <<"connect">>]>>]
    ELSE IF transport = "sendmail"
    THEN [st  |-> [st EXCEPT !.sent = Append(@, <<from_address, recipients, data>>)],
          exc |-> <<[exc |-> "SMTPException", msg |-> <<"sendmail">>]>>]
    ELSE [st  |-> [st EXCEPT !.sent = Append(@, <<from_address, recipients, data>>),
                             !.out = Append(@, <<"Sent email">>)],
          exc |-> <<>>]

\* send_email, st = [sent, out]: the state it leaves and the exception it
\* raises (<<>>: none).  transport is what the mail transport does when it
\* is reached: "ok", or raise at "connect" (smtplib.SMTP(...)) or in
\* "sendmail".
send_email(st, from_address, recipients, data, transport) ==
    IF dry_run
    THEN [st  |-> [st EXCEPT !.out = @ \o <<<<"Not sending email due to dry run">>,
                                            <<"|", data>>>>],
          exc |-> <<>>]
    ELSE IF transport = "connect"
    THEN [st |-> st, exc |-> <<[exc |-> "SMTPException", msg |-> <<"connect">>]>>]
    ELSE IF transport = "sendmail"
    THEN [st  |-> [st EXCEPT !.sent = Append(@, <<from_address, recipients, data>>)],
          exc |-> <<[exc |-> "SMTPException", msg |-> <<"sendmail">>]>>]
    ELSE [st  |-> [st EXCEPT !.sent = Append(@, <<from_address, recipients, data>>),
                             !.out = Append(@, <<"Sent email">>)],
          exc |-> <<>>]

\* email_for raised and the loop went on to the next person.
SendEmailForRaises_swallowed ==
    /\ pc = "run" /\ idx <= Len(order)
    /\ \E g \in {Generated(order[idx])} :
           /\ ~g.res.ok
           /\ memo' = g.st.memo /\ calls' = g.st.calls /\ out' = g.st.out
           /\ error' = <<[exc |-> g.res.exc, msg |-> g.res.msg]>>
    /\ idx' = idx + 1
    /\ UNCHANGED <<config, today, due_date, dry_run, order, pc, handed, sent,
                   ret>>

\* email_for raised: the exception leaves send_email_for and send_all_email.
SendEmailForRaises ==
    /\ pc = "run" /\ idx <= Len(order)
    /\ \E g \in {Generated(order[idx])} :
           /\ ~g.res.ok
           /\ memo' = g.st.memo /\ calls' = g.st.calls /\ out' = g.st.out
           /\ error' = <<[exc |-> g.res.exc, msg |-> g.res.msg]>>
    /\ pc' = "failed"
    /\ UNCHANGED <<config, today, due_date, dry_run, order, idx, handed, sent,
                   ret>>

\* email_for returned: the envelope is printed and handed to send_email,
\* whose exception, if any, leaves send_all_email.
SendEmailFor(transport) ==
    /\ pc = "run" /\ idx <= Len(order)
    /\ \E g \in {Generated(order[idx])} :
        /\ g.res.ok
        /\ memo' = g.st.memo /\ calls' = g.st.calls
        /\ handed' = Append(handed, Envelope(g.res.val))
        /\ \E s \in {send_email([sent |-> sent,
                                 out  |-> g.st.out \o Printed(g.res.val)],
                                g.res.val.from, g.res.val.recipients,
                                g.res.val.message, transport)} :
            /\ sent' = s.st.sent /\ out' = s.st.out
            /\ error' = s.exc
            /\ pc' = IF s.exc = <<>> THEN pc ELSE "failed"
            /\ idx' = IF s.exc = <<>> THEN idx + 1 ELSE idx
    /\ UNCHANGED <<config, today, due_date, dry_run, order, ret>>

SendEmailForDry == dry_run /\ SendEmailFor("ok")

SendEmailForReal == ~dry_run /\ SendEmailFor("ok")

SendEmailForTransportError ==
    ~dry_run /\ \E at \in {"connect", "sendmail"} : SendEmailFor(at)

\* The loop of send_all_email is over.
Return ==
    /\ pc = "run" /\ idx > Len(order)
    /\ pc' = "done"
    /\ UNCHANGED <<config, today, due_date, dry_run, memo, calls, out, order,
                   idx, error, handed, sent, ret>>

(***************************************************************************)
(* The methods called one at a time on a RentReminder that is not running  *)
(* send_all_email (pc = "idle"), each call and its result appended to ret. *)
(***************************************************************************)
\* The most calls made on one RentReminder.
MaxCalls == 2

Called(fn, arg, r) ==
    /\ ret' = Append(ret, [fn |-> fn, arg |-> arg, res |-> r.res])
    /\ memo' = r.st.memo /\ calls' = r.st.calls /\ out' = r.st.out
    /\ UNCHANGED <<config, today, due_date, dry_run, order, idx, pc, error,
                   handed, sent>>

Call_rents_as_of(rent_date) ==
    /\ pc = "idle" /\ Len(ret) < MaxCalls
    /\ \E r \in {rents_as_of(Self, rent_date)} :
           Called("rents_as_of", rent_date, r)

Call_utility_info ==
    /\ pc = "idle" /\ Len(ret) < MaxCalls
    /\ Called("utility_info", <<>>, [st |-> Self, res |-> utility_info])

Call_parts_for(name) ==
    /\ pc = "idle" /\ Len(ret) < MaxCalls
    /\ \E r \in {parts_for(Self, name)} : Called("parts_for", name, r)

Call_email_for(name) ==
    /\ pc = "idle" /\ Len(ret) < MaxCalls
    /\ \E r \in {email_for(Self, name)} : Called("email_for", name, r)

(***************************************************************************)
(* RentReminder.__init__: loads the configuration and settles today (the   *)
(* rent_date given, or date.today()), the due date and dry_run.            *)
(***************************************************************************)
New(loaded, start, dry) ==
    /\ pc = "new"
    /\ config' = loaded
    /\ today' = start
    /\ due_date' = first_next_month(start)
    /\ dry_run' = dry
    /\ order' \in {q \in [1..Cardinality(DOMAIN loaded.people) -> DOMAIN loaded.people] :
                      \A i, j \in DOMAIN q : q[i] = q[j] => i = j}
    /\ pc' = "idle"
    /\ UNCHANGED <<memo, calls, out, idx, error, handed, sent, ret>>

(***************************************************************************)
(* Configurations and dates.                                               *)
(***************************************************************************)
\* The longest rent schedule drawn.
MaxSched == 3

\* The largest utility amount, in cents, drawn where the totals are checked.
MaxCents == 12

\* The number of years of dates drawn, from 2023 on.
YearSpan == 2

Names == {"A", "B"}

EmailOf(name) == IF name = "A" THEN "a@example.org" ELSE "b@example.org"

Landlord == "landlord@example.org"

\* A person without the cc key, or with it (empty, or an address); flags are
\* the payment flags set.
PersonNoCc(name, flags) ==
    [k \in {"email"} \cup flags |-> IF k = "email" THEN EmailOf(name) ELSE TRUE]

PersonCc(name, cc, flags) ==
    [k \in {"email", "cc"} \cup flags |->
        IF k = "email" THEN EmailOf(name) ELSE IF k = "cc" THEN cc ELSE TRUE]

Persons(name, ccs, flagsets) ==
    {PersonNoCc(name, f) : f \in flagsets}
    \cup {PersonCc(name, cc, f) : cc \in ccs, f \in flagsets}

\* Every mapping of a non-empty set of names to persons.
Peoples(ccs, flagsets) ==
    UNION {{p \in [S -> UNION {Persons(n, ccs, flagsets) : n \in S}] :
               \A n \in S : p[n].email = EmailOf(n)} :
           S \in (SUBSET Names) \ {{}}}

Splits == {[A |-> 100000, B |-> 120000], [A |-> 105050]}

Entries(sinces) == [since : sinces, splits : Splits]

RECURSIVE SeqsUpTo(_, _)
SeqsUpTo(S, n) ==
    IF n = 0 THEN {<<>>}
    ELSE The({shorter \cup {Append(q, x) : q \in shorter, x \in S} :
              shorter \in {SeqsUpTo(S, n - 1)}})

\* The effective dates ascending, as the program expects them.
IsAscending(rent) ==
    \A i \in 1..(Len(rent) - 1) : DateGE(rent[i + 1].since, rent[i].since)

IsStrictlyAscending(rent) ==
    \A i \in 1..(Len(rent) - 1) :
        DateGE(rent[i + 1].since, rent[i].since)
        /\ rent[i + 1].since # rent[i].since

KeyOrders(S) ==
    {q \in [1..Cardinality(S) -> S] : \A i, j \in 1..Cardinality(S) :
                                           q[i] = q[j] => i = j}

Config(people, rent, utilities) ==
    [people        |-> people,
     rent          |-> rent,
     utilities     |-> utilities,
     email         |-> [from |-> "rent@example.org", bcc |-> Landlord],
     payment_links |-> [paypal |-> "pp-handle", square |-> "sq-handle"]]

Bills == [Electric |-> 9000, Water |-> 3000]

Bills3 == [Water |-> 3333, Gas |-> 4567, Electric |-> 9001]

Utilities ==
    {<<>>,
     2023 :> (7 :> Bills),
     2023 :> (8 :> Bills),
     2023 :> (7 :> Bills3 @@ 12 :> Bills),
     2023 :> (12 :> ("Gas" :> 4567)) @@ 2024 :> (1 :> Bills)}

Todays == {<<2023, 7, 10>>, <<2023, 12, 15>>}

Sinces == {<<2023, 1, 1>>, <<2023, 9, 1>>}

DaysIn(y, m) ==
    IF m = 2 THEN (IF y % 4 = 0 /\ (y % 100 # 0 \/ y % 400 = 0) THEN 29 ELSE 28)
    ELSE IF m \in {4, 6, 9, 11} THEN 30 ELSE 31

Dates ==
    {d \in (2023..(2022 + YearSpan)) \X (1..12) \X (1..31) :
        d[3] <= DaysIn(d[1], d[2])}

\* The part of the state a freshly constructed RentReminder starts with.
Fresh ==
    /\ memo = <<>> /\ calls = 0 /\ out = <<>>
    /\ idx = 1 /\ error = <<>> /\ handed = <<>> /\ sent = <<>> /\ ret = <<>>

(***************************************************************************)
(* The program: a RentReminder after __init__, send_all_email about to     *)
(* iterate over the people, in any order of the keys.                      *)
(***************************************************************************)
Init ==
    /\ today \in Todays
    /\ due_date = first_next_month(today)
    /\ dry_run \in BOOLEAN
    /\ \E people \in Peoples({"", "cc@example.org"}, {{"paypal_me"}}),
          rent \in {r \in SeqsUpTo(Entries(Sinces), MaxSched) :
                       IsStrictlyAscending(r)},
          utilities \in Utilities :
            /\ config = Config(people, rent, utilities)
            /\ order \in KeyOrders(DOMAIN people)
    /\ pc = "run"
    /\ Fresh

Next ==
    \/ SendEmailForRaises
    \/ SendEmailForDry
    \/ SendEmailForReal
    \/ SendEmailForTransportError
    \/ Return

Spec == Init /\ [][Next]_vars

(***************************************************************************)
(* The constructor on every date.                                          *)
(***************************************************************************)
TheConfig ==
    Config([A |-> PersonCc("A", "", {})],
           <<[since |-> <<2023, 1, 1>>, splits |-> [A |-> 100000]]>>,
           2023 :> (7 :> Bills))

InitDate ==
    /\ pc = "new"
    /\ config = <<>> /\ today = <<>> /\ due_date = <<>> /\ dry_run = TRUE
    /\ order = <<>>
    /\ Fresh

NextDate == \E start \in Dates : New(TheConfig, start, TRUE)

SpecDate == InitDate /\ [][NextDate]_vars

(***************************************************************************)
(* rents_as_of on schedules in any order, for dates around their entries.  *)
(***************************************************************************)
RentSinces == {<<2023, 1, 1>>, <<2023, 6, 1>>, <<2023, 9, 1>>}

RentDates ==
    {<<2022, 12, 31>>, <<2023, 1, 1>>, <<2023, 7, 1>>, <<2023, 10, 1>>}

InitRents ==
    /\ today = <<2023, 7, 10>>
    /\ due_date = first_next_month(today)
    /\ dry_run = TRUE
    /\ \E rent \in SeqsUpTo(Entries(RentSinces), MaxSched) :
           config = Config([A |-> PersonCc("A", "", {})], rent,
                           2023 :> (7 :> Bills))
    /\ order = <<"A">>
    /\ pc = "idle"
    /\ Fresh

NextRents == \E rent_date \in RentDates : Call_rents_as_of(rent_date)

SpecRents == InitRents /\ [][NextRents]_vars

(***************************************************************************)
(* utility_info and parts_for, over the utilities and the dates.           *)
(***************************************************************************)
PartsTodays == {<<2023, 7, 10>>, <<2023, 8, 31>>, <<2023, 12, 15>>,
                <<2024, 1, 1>>}

InitParts ==
    /\ today \in PartsTodays
    /\ due_date = first_next_month(today)
    /\ dry_run = TRUE
    /\ \E people \in Peoples({""}, {{}}),
          rent \in {r \in SeqsUpTo(Entries(Sinces), 2) : IsStrictlyAscending(r)},
          utilities \in Utilities :
            /\ config = Config(people, rent, utilities)
            /\ order \in KeyOrders(DOMAIN people)
    /\ pc = "idle"
    /\ Fresh

NextParts ==
    \/ Call_utility_info
    \/ \E name \in DOMAIN config.people : Call_parts_for(name)

SpecParts == InitParts /\ [][NextParts]_vars

(***************************************************************************)
(* email_for over the people's settings.                                   *)
(***************************************************************************)
InitEmail ==
    /\ today = <<2023, 7, 10>>
    /\ due_date = first_next_month(today)
    /\ dry_run = TRUE
    /\ \E people \in Peoples({"", "cc@example.org", Landlord},
                             {{}, {"paypal_me"}, {"paypal_me", "square_me"}}) :
            /\ config = Config(people,
                               <<[since |-> <<2023, 1, 1>>,
                                  splits |-> [A |-> 100000, B |-> 120000]]>>,
                               2023 :> (7 :> Bills))
            /\ order \in KeyOrders(DOMAIN people)
    /\ pc = "idle"
    /\ Fresh

NextEmail == \E name \in DOMAIN config.people : Call_email_for(name)

SpecEmail == InitEmail /\ [][NextEmail]_vars

(***************************************************************************)
(* email_for over the utility amounts.                                     *)
(***************************************************************************)
InitTotal ==
    /\ today = <<2023, 7, 10>>
    /\ due_date = first_next_month(today)
    /\ dry_run = TRUE
    /\ \E people \in {[A |-> PersonCc("A", "", {})],
                        [A |-> PersonCc("A", "", {}), B |-> PersonCc("B", "", {})]},
          e \in 0..MaxCents, w \in 0..MaxCents :
            /\ config = Config(people,
                               <<[since |-> <<2023, 1, 1>>,
                                  splits |-> [A |-> 100000, B |-> 120000]]>>,
                               2023 :> (7 :> [Electric |-> e, Water |-> w]))
            /\ order \in KeyOrders(DOMAIN people)
    /\ pc = "idle"
    /\ Fresh

NextTotal == \E name \in DOMAIN config.people : Call_email_for(name)

SpecTotal == InitTotal /\ [][NextTotal]_vars


(***************************************************************************)
(* What is checked.                                                        *)
(***************************************************************************)
\* Entry i of the schedule is one whose effective date is the greatest of
\* those not after d.
Applies(rent, i, d) ==
    /\ i \in 1..Len(rent)
    /\ DateGE(d, rent[i].since)
    /\ \A j \in 1..Len(rent) :
           DateGE(d, rent[j].since) => DateGE(rent[i].since, rent[j].since)

\* C1: on a schedule in ascending order of effective date, rents_as_of of a
\* date that is not before every entry returns the splits of the entry with
\* the greatest effective date not after that date.
C1_LatestApplicableEntry ==
    \A k \in 1..Len(ret) :
        (/\ ret[k].fn = "rents_as_of"
         /\ IsAscending(config.rent)
         /\ \E i \in 1..Len(config.rent) :
                DateGE(ret[k].arg, config.rent[i].since))
        => /\ ret[k].res.ok
           /\ \E i \in 1..Len(config.rent) :
                  /\ Applies(config.rent, i, ret[k].arg)
                  /\ ret[k].res.val = config.rent[i].splits

\* Entries of 2023-01-01 and 2023-06-01 asked for 2023-07-01: the second.
C1_Witness ==
    /\ Len(config.rent) = 2
    /\ config.rent[1].since = <<2023, 1, 1>>
    /\ config.rent[2].since = <<2023, 6, 1>>
    /\ config.rent[1].splits # config.rent[2].splits
    /\ \E k \in 1..Len(ret) :
           /\ ret[k].fn = "rents_as_of" /\ ret[k].arg = <<2023, 7, 1>>
           /\ ret[k].res.ok /\ ret[k].res.val = config.rent[2].splits

\* The index of a month counted from year 0.
MonthIndex(d) == 12 * d[1] + d[2] - 1

\* C2: the due date __init__ sets is day 1 of the month after today's, in
\* January of the next year for a day of December; it is later than today
\* and in the calendar month right after today's.
C2_FirstOfNextMonth ==
    pc # "new" =>
        /\ due_date[3] = 1 /\ due_date[2] \in 1..12
        /\ today[2] = 12 => due_date = <<today[1] + 1, 1, 1>>
        /\ today[2] # 12 => due_date = <<today[1], today[2] + 1, 1>>
        /\ DateGE(due_date, today) /\ due_date # today
        /\ MonthIndex(due_date) = MonthIndex(today) + 1

C2_Witness ==
    pc # "new" /\ today = <<2023, 12, 15>> /\ due_date = <<2024, 1, 1>>

\* sum(utilities.values()) as Python adds it up, from acc on.
RECURSIVE sum_amounts(_, _, _)
sum_amounts(acc, ks, bills) ==
    IF ks = <<>> THEN acc
    ELSE sum_amounts(FAdd(acc, FloatOfCents(bills[Head(ks)])), Tail(ks), bills)

\* rent + sum(utilities) / numPayers, rounded to 2 decimals.
RentPlusDividedSum(name) ==
    The({Round2(FAdd(FloatOfCents(The({config.rent[i].splits[name] :
                                       i \in {i \in 1..Len(config.rent) :
                                                 Applies(config.rent, i, due_date)}})),
                     FDiv(sum_amounts(FloatOfInt(0), sorted(DOMAIN bills), bills),
                          Cardinality(DOMAIN config.people) + 1))) :
         bills \in {config.utilities[today[1]][today[2]]}})

\* C3: the total of the statement email_for composes is the person's rent
\* plus the sum of the utilities of today's month divided by the number of
\* payers, rounded to 2 decimals.
C3_TotalIsRentPlusDividedSum ==
    \A k \in 1..Len(ret) :
        (ret[k].fn = "email_for" /\ ret[k].res.ok)
        => ret[k].res.val.message.total = RentPlusDividedSum(ret[k].arg)

DigitValue(ch) == CHOOSE v \in 0..9 : Digit[v + 1] = ch

\* C4: utility_info returns the utilities under the year and the month of
\* today when they are there, and raises NoUtilityInfo with today's year and
\* month as YYYY-MM at the end of the message when they are not, whatever is
\* there for the due date.
C4_UtilityInfoOfToday ==
    \A k \in 1..Len(ret) :
        ret[k].fn = "utility_info" =>
            IF /\ today[1] \in DOMAIN config.utilities
               /\ today[2] \in DOMAIN config.utilities[today[1]]
            THEN /\ ret[k].res.ok
                 /\ ret[k].res.val = config.utilities[today[1]][today[2]]
            ELSE /\ ~ret[k].res.ok
                 /\ ret[k].res.exc = "NoUtilityInfo"
                 /\ Len(ret[k].res.msg) = 8
                 /\ 1000 * DigitValue(ret[k].res.msg[2])
                    + 100 * DigitValue(ret[k].res.msg[3])
                    + 10 * DigitValue(ret[k].res.msg[4])
                    + DigitValue(ret[k].res.msg[5]) = today[1]
                 /\ ret[k].res.msg[6] = "-"
                 /\ 10 * DigitValue(ret[k].res.msg[7])
                    + DigitValue(ret[k].res.msg[8]) = today[2]

\* Today 2023-07-10, nothing for 2023/7 but an entry for 2023/8, the month
\* of the due date: the error names 2023-07.
C4_Witness ==
    /\ today = <<2023, 7, 10>>
    /\ 2023 \in DOMAIN config.utilities
    /\ 7 \notin DOMAIN config.utilities[2023]
    /\ 8 \in DOMAIN config.utilities[2023]
    /\ \E k \in 1..Len(ret) :
           /\ ret[k].fn = "utility_info" /\ ~ret[k].res.ok
           /\ SubSeq(ret[k].res.msg, 2, 8) = <<"2", "0", "2", "3", "-", "0", "7">>

\* C5: rents_as_of of a date before the effective date of every entry (or on
\* an empty schedule) raises the error of the schedule lookup and returns no
\* splits, of the oldest entry or of any other.
C5_NoEntryRaises ==
    \A k \in 1..Len(ret) :
        (/\ ret[k].fn = "rents_as_of"
         /\ \A i \in 1..Len(config.rent) :
                ~DateGE(ret[k].arg, config.rent[i].since))
        => /\ ~ret[k].res.ok
           /\ ret[k].res.exc = "KeyError"
           /\ ret[k].res.msg = <<"Cannot find rent for", ret[k].arg>>
           /\ memo = <<>>

C5_Witness ==
    /\ Len(config.rent) >= 1
    /\ \E k \in 1..Len(ret) :
           /\ ret[k].fn = "rents_as_of" /\ ret[k].arg = <<2022, 12, 31>>
           /\ ~ret[k].res.ok

RECURSIVE header_names(_)
header_names(headers) ==
    IF headers = <<>> THEN <<>>
    ELSE <<Head(headers)[1]>> \o header_names(Tail(headers))

HasCc(person) == "cc" \in DOMAIN person /\ person.cc # ""

\* C6: for every configured person email_for returns the recipients
\* [email] + [cc] if and only if a cc address is configured + [bcc], and the
\* Cc header between To and Subject exactly then; a person without a cc
\* address gets the envelope with [email, bcc] and no Cc header.
C6_RecipientsAndCc ==
    \A k \in 1..Len(ret) :
        ret[k].fn = "email_for" =>
            /\ ret[k].res.ok
            /\ ret[k].res.val.recipients =
                   <<config.people[ret[k].arg].email>>
                   \o (IF HasCc(config.people[ret[k].arg])
                       THEN <<config.people[ret[k].arg].cc>> ELSE <<>>)
                   \o <<config.email.bcc>>
            /\ header_names(ret[k].res.val.message.headers) =
                   IF HasCc(config.people[ret[k].arg])
                   THEN <<"From", "To", "Cc", "Subject">>
                   ELSE <<"From", "To", "Subject">>

\* C7: with dry_run set the mail transport is never reached, and every
\* envelope handed to send_email has been printed; without it sendmail gets
\* the from, recipients and message email_for returns for the person.
C7_DryRunNeverSends ==
    /\ dry_run =>
          /\ sent = <<>>
          /\ \A i \in 1..Len(handed) :
                \E j \in 1..Len(out) :
                    /\ Len(out[j]) = 2 /\ out[j][1] = "|"
                    /\ out[j][2] = handed[i][3]
    /\ ~dry_run =>
          /\ Len(sent) <= Len(handed)
          /\ \A i \in 1..Len(sent) :
                /\ sent[i] = handed[i]
                /\ sent[i] = Envelope(email_for(Self, order[i]).res.val)
          /\ pc = "done" => Len(sent) = Len(order)

C7_Witness ==
    dry_run /\ pc = "done" /\ Len(order) = 2 /\ Len(handed) = 2 /\ sent = <<>>

\* C8: send_all_email hands one envelope to send_email for each person, in
\* the order of the iteration, and for nobody else; an error of a person's
\* statement or of its sending ends the run there, with nothing handed for
\* the persons after and what was handed before kept.
C8_OneEnvelopeEachUntilError ==
    /\ Len(handed) <= Len(order)
    /\ \A i \in 1..Len(handed) :
           handed[i][2][1] = config.people[order[i]].email
    /\ pc = "run" => error = <<>> /\ Len(handed) = idx - 1
    /\ pc = "done" => error = <<>> /\ Len(handed) = Len(order)
    /\ pc = "failed" =>
          /\ error # <<>> /\ idx <= Len(order)
          /\ Len(handed) = IF error[1].exc = "SMTPException" THEN idx
                           ELSE idx - 1

\* The second person's statement raised after the first was handed.
C8_Witness ==
    /\ pc = "failed" /\ Len(order) = 2 /\ idx = 2 /\ Len(handed) = 1
    /\ error[1].exc # "SMTPException"

\* C9: parts_for returns the Rent component, of the person's rent for the due
\* date and divided among 1, and then one component for each utility
\* category of today's month, in ascending order of the names, each of the
\* category's amount and divided among the number of people plus one.
C9_PartsFor ==
    \A k \in 1..Len(ret) :
        (ret[k].fn = "parts_for" /\ ret[k].res.ok) =>
            /\ today[1] \in DOMAIN config.utilities
            /\ today[2] \in DOMAIN config.utilities[today[1]]
            /\ Len(ret[k].res.val) =
                   1 + Cardinality(DOMAIN config.utilities[today[1]][today[2]])
            /\ ret[k].res.val[1].name = "Rent"
            /\ ret[k].res.val[1].divided_among = 1
            /\ \E i \in 1..Len(config.rent) :
                   /\ Applies(config.rent, i, due_date)
                   /\ ret[k].res.val[1].total =
                          FloatOfCents(config.rent[i].splits[ret[k].arg])
            /\ \A j \in 2..Len(ret[k].res.val) :
                   /\ ret[k].res.val[j].name
                          \in DOMAIN config.utilities[today[1]][today[2]]
                   /\ ret[k].res.val[j].total =
                          FloatOfCents(config.utilities[today[1]][today[2]]
                                           [ret[k].res.val[j].name])
                   /\ ret[k].res.val[j].divided_among =
                          Cardinality(DOMAIN config.people) + 1
                   /\ ret[k].res.val[j].divided_among >= 2
            /\ \A j \in 2..(Len(ret[k].res.val) - 1) :
                   Rank(ret[k].res.val[j].name) < Rank(ret[k].res.val[j + 1].name)

C9_Witness ==
    \E k \in 1..Len(ret) :
        /\ ret[k].fn = "parts_for" /\ ret[k].res.ok
        /\ Len(ret[k].res.val) = 4
        /\ ret[k].res.val[2].name = "Electric"
        /\ ret[k].res.val[4].name = "Water"
        /\ ret[k].res.val[4].divided_among = 3

\* C10: in one run rents_as_of is entered at most once; once the schedule is
\* resolved the entry is kept and every statement's rent comes from it; a
\* resolution that failed has stored nothing.
C10_ResolvedOnce ==
    /\ calls <= 1
    /\ memo # <<>> =>
          /\ calls = 1
          /\ \E i \in 1..Len(config.rent) :
                 Applies(config.rent, i, due_date)
                 /\ memo[1] = config.rent[i].splits
          /\ \A i \in 1..Len(handed) :
                 handed[i][3].parts[1] =
                     <<"Rent", Format2f(FloatOfCents(memo[1][order[i]]))>>
    /\ (calls = 1 /\ memo = <<>>) =>
          /\ pc = "failed"
          /\ error[1].msg[1] = "Cannot find rent for"

C10_Witness ==
    pc = "done" /\ Len(order) = 2 /\ Len(handed) = 2 /\ calls = 1 /\ memo # <<>>

====
